---- MODULE Spec2Model ----
(***************************************************************************)
(* State-machine model of the accessible-components widgets: the Accordion *)
(* group controller (src/src/classes/Accordion.ts) and the Toggle          *)
(* disclosure (src/src/classes/Toggle.js), on top of the per-node instance *)
(* registry of AbstractDomElement.                                         *)
(*                                                                         *)
(* The document is modelled by the attributes the widgets read and write:  *)
(* id, aria-controls, aria-expanded on triggers; id, aria-labelledby and   *)
(* the inline display style on panels; the listeners attached to triggers  *)
(* and to the document; document.activeElement; window.innerWidth.         *)
(* Handlers are operators from a world record to a world record, so that a *)
(* handler calling another (constructor -> _handleResize -> init) is one   *)
(* atomic action, as it is one run-to-completion callback in the browser.  *)
(***************************************************************************)
EXTENDS Integers, Sequences, FiniteSets, TLC

\* ------------------------------------------------------------------ bounds
NNodes == 2
NPanels == 2
MaxInst == 2
NTokens == 2
MaxWidth == 2
MaxListeners == 2
MaxTimers == 1

Nodes == 1..NNodes
Idx == 1..NPanels
Insts == 1..MaxInst
Tokens == 1..NTokens
Widths == 0..MaxWidth
\* the pixel value written in the media query text, e.g. (min-width: 1px)
Thresholds == {1}
Keys == {"ArrowUp", "ArrowDown", "Home", "End", "Tab"}

VARIABLES
  trig,      \* trig[n][k]: id, aria-controls, aria-expanded of trigger k of node n
  panel,     \* panel[n][k]: id, aria-labelledby, inline display of panel k of node n
  trigL,     \* trigL[n]: instances whose click/focus/blur handlers sit on n's triggers
  keyL,      \* document keydown listeners, in registration order
  activeEl,  \* document.activeElement
  inst,      \* the Accordion instances ever constructed, with the panels on which
             \* a slideDown (downs) or slideUp (ups) they started is still running
  registry,  \* AbstractDomElement registry: node -> instance, 0 when absent
  resizeL,   \* instances subscribed to the throttled window resize, in order
  width,     \* window.innerWidth
  firstInit, \* history: per node, the ARIA state its first init produced
  tog,       \* the Toggle instance on its trigger node, with trigger and target attributes
  trail,     \* history: the last Toggle operations and the attributes each left
  ev         \* what the last handled event did (callbacks, preventDefault, ...)

accVars == <<trig, panel, trigL, keyL, activeEl, inst, registry, resizeL, width, firstInit>>

\* ------------------------------------------------------------- DOM values
NoId == <<0, "x", 0>>
NoEl == <<0, "x", 0>>
Trigger(n, k) == <<n, "t", k>>
Panel(n, k) == <<n, "p", k>>
\* the first focusable descendant of panel k of node n
Inner(n, k) == <<n, "f", k>>
\* markup: which panels contain a focusable element (a link in the first panel)
PanelHasFocusable(n, k) == k = 1

NoTrig == [id |-> NoId, controls |-> NoId, expanded |-> "none"]
NoPanel == [id |-> NoId, labelledby |-> NoId, display |-> ""]
NoMq == [kind |-> "none", th |-> 0]
NoInst ==
  [node |-> 0, allowMultiple |-> FALSE, forceExpand |-> FALSE, closedDefault |-> FALSE,
   mq |-> NoMq, active |-> FALSE, activePanel |-> NoEl, focus |-> FALSE, hrb |-> "undef",
   hasAnimation |-> FALSE, downs |-> {}, ups |-> {}]

\* the unbound prototype method Accordion.prototype._handleKeydown
ProtoKeydown == 0

Call(f, i, el, b) == [f |-> f, i |-> i, el |-> el, b |-> b]
NoEv == [op |-> "load", el |-> NoEl, arg |-> 0, calls |-> <<>>, prevented |-> FALSE,
         flips |-> {}, ret |-> 0, threw |-> FALSE]

\* MediaQueryList.matches of (min-width: th) / (max-width: th) at width w
Matches(mq, w) ==
  CASE mq.kind = "min" -> w >= mq.th
    [] mq.kind = "max" -> w <= mq.th
    [] OTHER -> FALSE

\* ------------------------------------------------------------- the world
Cur ==
  [trig |-> trig, panel |-> panel, trigL |-> trigL, keyL |-> keyL, activeEl |-> activeEl,
   inst |-> inst, registry |-> registry, resizeL |-> resizeL, width |-> width,
   fresh |-> firstInit, calls |-> <<>>, prevented |-> FALSE]

Commit(W) ==
  /\ trig' = W.trig
  /\ panel' = W.panel
  /\ trigL' = W.trigL
  /\ keyL' = W.keyL
  /\ activeEl' = W.activeEl
  /\ inst' = W.inst
  /\ registry' = W.registry
  /\ resizeL' = W.resizeL
  /\ width' = W.width
  /\ firstInit' = W.fresh
  /\ UNCHANGED <<tog, trail>>

\* the ARIA wiring and visibility of a group, ids without their random token
NoSnap == [exp |-> <<>>, ctl |-> <<>>, lab |-> <<>>, pid |-> <<>>, tid |-> <<>>, vis |-> <<>>]
Snap(W, n) ==
  [exp |-> [k \in Idx |-> W.trig[n][k].expanded],
   ctl |-> [k \in Idx |-> <<W.trig[n][k].controls[2], W.trig[n][k].controls[3]>>],
   tid |-> [k \in Idx |-> <<W.trig[n][k].id[2], W.trig[n][k].id[3]>>],
   lab |-> [k \in Idx |-> <<W.panel[n][k].labelledby[2], W.panel[n][k].labelledby[3]>>],
   pid |-> [k \in Idx |-> <<W.panel[n][k].id[2], W.panel[n][k].id[3]>>],
   vis |-> [k \in Idx |-> W.panel[n][k].display # "none"]]
Remember(W, n) == IF W.fresh[n] = NoSnap THEN [W EXCEPT !.fresh[n] = Snap(W, n)] ELSE W

Log(W, c) == [W EXCEPT !.calls = Append(@, c)]

InSeq(s, x) == \E j \in 1..Len(s) : s[j] = x
AddOnce(s, x) == IF InSeq(s, x) THEN s ELSE Append(s, x)
RemoveFrom(s, x) == SelectSeq(s, LAMBDA y : y # x)

IdsInDocument(W) ==
  ({W.trig[n][k].id : n \in Nodes, k \in Idx} \cup {W.panel[n][k].id : n \in Nodes, k \in Idx})
    \ {NoId}

DocOrder(e) == e[1] * (2 * NPanels + 2) + 2 * e[3] + (IF e[2] = "p" THEN 1 ELSE 0)

\* document.getElementById: the first element in document order carrying the id
getElementById(W, id) ==
  LET hits == {Trigger(n, k) : n \in {m \in Nodes : \E j \in Idx : W.trig[m][j].id = id},
                               k \in Idx}
              \cup {Panel(n, k) : n \in {m \in Nodes : \E j \in Idx : W.panel[m][j].id = id},
                                  k \in Idx}
      real == {e \in hits : IF e[2] = "t" THEN W.trig[e[1]][e[3]].id = id
                                          ELSE W.panel[e[1]][e[3]].id = id}
  IN IF id = NoId \/ real = {} THEN NoEl
     ELSE CHOOSE e \in real : \A f \in real : DocOrder(e) <= DocOrder(f)

Controls(W, e) == IF e[2] = "t" THEN W.trig[e[1]][e[3]].controls ELSE NoId
LabelledBy(W, e) == IF e[2] = "p" THEN W.panel[e[1]][e[3]].labelledby ELSE NoId
Expanded(W, e) == IF e[2] = "t" THEN W.trig[e[1]][e[3]].expanded ELSE "none"
SetExpanded(W, e, v) ==
  IF e[2] = "t" THEN [W EXCEPT !.trig[e[1]][e[3]].expanded = v] ELSE W
SetDisplay(W, e, v) ==
  IF e[2] = "p" THEN [W EXCEPT !.panel[e[1]][e[3]].display = v] ELSE W

\* element.focus(): blur listeners of the element losing focus run, then the focus
\* listeners of the element gaining it (_handleButtonBlur / _handleButtonFocus)
MoveFocus(W, el) ==
  IF W.activeEl = el THEN W
  ELSE LET old == W.activeEl
           blurred == IF old[2] = "t" THEN {i \in Insts : InSeq(W.trigL[old[1]], i)} ELSE {}
           focused == IF el[2] = "t" THEN {i \in Insts : InSeq(W.trigL[el[1]], i)} ELSE {}
       IN [W EXCEPT !.activeEl = el,
                    !.inst = [i \in Insts |->
                                IF i \in focused THEN [W.inst[i] EXCEPT !.focus = TRUE]
                                ELSE IF i \in blurred THEN [W.inst[i] EXCEPT !.focus = FALSE]
                                ELSE W.inst[i]]]

\* ------------------------------------------------------------- AbstractDomElement
\* The per-node registry: getInstance is a pure lookup, the base constructor
\* creates the entry of a node that has none, destroy removes the entry.
AbstractDomElement_getInstance(W, n) == W.registry[n]
AbstractDomElement_register(W, n, i) == [W EXCEPT !.registry[n] = i]
AbstractDomElement_destroy(W, n) == [W EXCEPT !.registry[n] = 0]
\* isNewInstance(): true only in the construction that created the entry
isNewInstance(W, n) == AbstractDomElement_getInstance(W, n) = 0

\* ------------------------------------------------------------- Accordion
\* window.getComputedStyle(panel).display === 'none' (no stylesheet hides panels)
isClosed(W, p) == p[2] = "p" /\ W.panel[p[1]][p[3]].display = "none"

\* The Animation Port. slideDown shows the element and starts the transition; its
\* completion callback runs once, later. slideUp starts the transition and hides
\* the element when it ends.
DOMAnimations_slideDown(W, i, p) ==
  SetDisplay([W EXCEPT !.inst[i].downs = @ \cup {p}], p, "block")
DOMAnimations_slideUp(W, i, p) == [W EXCEPT !.inst[i].ups = @ \cup {p}]

\* firstFocusableElement.focus(); an element that is not rendered cannot take focus
FocusFirstFocusable(W, p) ==
  IF p[2] = "p" /\ PanelHasFocusable(p[1], p[3]) /\ ~isClosed(W, p)
  THEN MoveFocus(W, Inner(p[1], p[3]))
  ELSE W

\* the completion callback open() handed to slideDown
slideDownComplete(W, i, p) ==
  FocusFirstFocusable([W EXCEPT !.inst[i].downs = @ \ {p}], p)

\* the end of a slideUp: the element is hidden, close() passed no callback
slideUpComplete(W, i, p) ==
  SetDisplay([W EXCEPT !.inst[i].ups = @ \ {p}], p, "none")

Accordion_close(W, i, p) ==
  IF W.inst[i].hasAnimation THEN DOMAnimations_slideUp(W, i, p)
  ELSE SetDisplay(W, p, "none")

\* open that focuses at once also when it starts an animation
Accordion_open_FocusAtOnce(W, i, p) ==
  IF p = NoEl THEN W
  ELSE LET W1 == [W EXCEPT !.inst[i].activePanel = p]
       IN IF W.inst[i].hasAnimation /\ isClosed(W, p)
          THEN FocusFirstFocusable(DOMAnimations_slideDown(W1, i, p), p)
          ELSE FocusFirstFocusable(SetDisplay(W1, p, "block"), p)

Accordion_open(W, i, p) ==
  IF p = NoEl THEN W
  ELSE LET W1 == [W EXCEPT !.inst[i].activePanel = p]
       IN IF W.inst[i].hasAnimation /\ isClosed(W, p)
          THEN DOMAnimations_slideDown(W1, i, p)
          ELSE FocusFirstFocusable(SetDisplay(W1, p, "block"), p)

\* init without the collision probe: the id is built from index + 1 as it stands
ProbeFreeIndex_NoProbe(W, tok, kind, start) == start

\* the while (document.getElementById(...)) i++ probe of init
ProbeFreeIndex(W, tok, kind, start) ==
  LET used == IdsInDocument(W)
  IN CHOOSE i \in start..(start + 2 * NNodes * NPanels + 1) :
       /\ <<tok, kind, i>> \notin used
       /\ \A j \in start..(i - 1) : <<tok, kind, j>> \in used

RECURSIVE TriggerLoop(_, _, _, _)
TriggerLoop(W, i, tok, index) ==
  IF index >= NPanels THEN W
  ELSE LET n == W.inst[i].node
           j == ProbeFreeIndex(W, tok, "t", index + 1)
           W1 == [W EXCEPT !.trig[n][index + 1] =
                    [id |-> <<tok, "t", j>>, controls |-> <<tok, "p", j>>,
                     expanded |-> IF index = 0 THEN "true" ELSE "false"]]
       IN TriggerLoop(W1, i, tok, index + 1)

\* The panel loop of Accordion.ts resets index to 0 and never increments it.
PanelLoopIndex(index) == index

RECURSIVE PanelLoop(_, _, _, _, _)
PanelLoop(W, i, tok, k, index) ==
  IF k > NPanels THEN W
  ELSE LET n == W.inst[i].node
           j == ProbeFreeIndex(W, tok, "p", index + 1)
           W1 == [W EXCEPT !.panel[n][k] =
                    [id |-> <<tok, "p", j>>, labelledby |-> <<tok, "t", j>>,
                     display |-> IF index # 0 THEN "none" ELSE @.display]]
           W2 == IF W.inst[i].closedDefault
                 THEN Accordion_close(SetExpanded(W1, Trigger(n, index + 1), "false"),
                                      i, Panel(n, k))
                 ELSE W1
       IN PanelLoop(W2, i, tok, k + 1, PanelLoopIndex(index))

\* hasReachBreakpoint as init computes it from window.innerWidth
InitBreakpoint(mq, w, old) ==
  CASE mq.kind = "min" -> IF w > mq.th THEN "above" ELSE "below"
    [] mq.kind = "max" -> IF w >= mq.th THEN "above" ELSE "below"
    [] OTHER -> old

\* init that leaves options.forceExpand as configured under closedDefault
Accordion_init_KeepForceExpand(W, i, tok) ==
  LET n == W.inst[i].node
      W0 == Log(W, Call("init", i, NoEl, FALSE))
      W1 == IF ~W0.inst[i].active THEN Log(W0, Call("onInit", i, NoEl, FALSE)) ELSE W0
      W2 == [W1 EXCEPT !.inst[i].active = TRUE,
                       !.inst[i].hrb = InitBreakpoint(W.inst[i].mq, W.width, @),
                       !.keyL = AddOnce(@, ProtoKeydown)]
      W3 == TriggerLoop(W2, i, tok, 0)
      W4 == [W3 EXCEPT !.trigL[n] = AddOnce(@, i)]
  IN Remember(PanelLoop(W4, i, tok, 1, 0), n)

Accordion_init(W, i, tok) ==
  LET n == W.inst[i].node
      W0 == Log(W, Call("init", i, NoEl, FALSE))
      W1 == IF ~W0.inst[i].active THEN Log(W0, Call("onInit", i, NoEl, FALSE)) ELSE W0
      W2 == [W1 EXCEPT !.inst[i].active = TRUE,
                       !.inst[i].hrb = InitBreakpoint(W.inst[i].mq, W.width, @),
                       !.inst[i].forceExpand = IF W.inst[i].closedDefault THEN FALSE ELSE @,
                       !.keyL = AddOnce(@, ProtoKeydown)]
      W3 == TriggerLoop(W2, i, tok, 0)
      W4 == [W3 EXCEPT !.trigL[n] = AddOnce(@, i)]
  IN Remember(PanelLoop(W4, i, tok, 1, 0), n)

\* destroy that forgets panel.removeAttribute('style')
Accordion_destroy_KeepStyle(W, n) ==
  LET i == AbstractDomElement_getInstance(W, n)
  IN IF i = 0 THEN AbstractDomElement_destroy(W, n)
     ELSE LET m == W.inst[i].node
              W1 == Log(W, Call("destroy", i, NoEl, FALSE))
          IN AbstractDomElement_destroy(
               [W1 EXCEPT !.inst[i].active = FALSE,
                          !.inst[i].activePanel = NoEl,
                          !.trig[m] = [k \in Idx |-> NoTrig],
                          !.trigL[m] = RemoveFrom(@, i),
                          !.panel[m] = [k \in Idx |->
                                          [NoPanel EXCEPT !.display = W.panel[m][k].display]],
                          !.keyL = AddOnce(@, i)], n)

\* destroy that tears down whatever instance was built on the node, registered or not
Accordion_destroy_NoLookup(W, n) ==
  LET on == {j \in Insts : W.inst[j].node = n}
  IN IF on = {} THEN AbstractDomElement_destroy(W, n)
     ELSE LET i == CHOOSE j \in on : \A l \in on : j <= l
              W1 == Log(W, Call("destroy", i, NoEl, FALSE))
          IN AbstractDomElement_destroy(
               [W1 EXCEPT !.inst[i].active = FALSE,
                          !.inst[i].activePanel = NoEl,
                          !.trig[n] = [k \in Idx |-> NoTrig],
                          !.trigL[n] = RemoveFrom(@, i),
                          !.panel[n] = [k \in Idx |-> NoPanel],
                          !.keyL = AddOnce(@, i)], n)

\* static Accordion.destroy(element)
\* (its last statement is document.addEventListener('keydown', instance.handleKeydown))
Accordion_destroy(W, n) ==
  LET i == AbstractDomElement_getInstance(W, n)
  IN IF i = 0 THEN AbstractDomElement_destroy(W, n)
     ELSE LET m == W.inst[i].node
              W1 == Log(W, Call("destroy", i, NoEl, FALSE))
          IN AbstractDomElement_destroy(
               [W1 EXCEPT !.inst[i].active = FALSE,
                          !.inst[i].activePanel = NoEl,
                          !.trig[m] = [k \in Idx |-> NoTrig],
                          !.trigL[m] = RemoveFrom(@, i),
                          !.panel[m] = [k \in Idx |-> NoPanel],
                          !.keyL = AddOnce(@, i)], n)

RECURSIVE CloseOthers(_, _, _, _)
CloseOthers(W, i, tr, k) ==
  IF k > NPanels THEN W
  ELSE LET n == W.inst[i].node
           p == Panel(n, k)
           ctl == Controls(W, tr)
           W1 == IF tr # NoEl /\ (W.panel[n][k].id = NoId \/ ctl = NoId \/ W.panel[n][k].id # ctl)
                 THEN LET Wa == SetExpanded(W, tr, "false")
                      IN IF ~isClosed(Wa, p)
                         THEN Log(Accordion_close(Wa, i, p), Call("onClose", i, p, FALSE))
                         ELSE Wa
                 ELSE W
       IN CloseOthers(W1, i, tr, k + 1)

\* a click handler whose collapse branch ignores forceExpand
_handleButtonClick_AlwaysCollapse(W, i, t) ==
  LET ctl == Controls(W, t)
      p == getElementById(W, ctl)
  IN IF ctl = NoId \/ p = NoEl THEN W
     ELSE IF Expanded(W, t) = "true"
          THEN Log(Accordion_close(SetExpanded(W, t, "false"), i, p),
                   Call("onClose", i, p, FALSE))
          ELSE Log(Accordion_open(SetExpanded(W, t, "true"), i, p),
                   Call("onOpen", i, p, FALSE))

_handleButtonClick(W, i, t) ==
  LET n == W.inst[i].node
      o == W.inst[i]
      ctl == Controls(W, t)
      p == getElementById(W, ctl)
      lab == LabelledBy(W, p)
      nExpanded == Cardinality({k \in Idx : W.trig[n][k].expanded = "true"})
  IN IF ctl = NoId \/ p = NoEl THEN W
     ELSE IF /\ Expanded(W, t) = "true"
             /\ (~o.forceExpand \/ (o.forceExpand /\ o.allowMultiple /\ nExpanded > 1))
          THEN Log(Accordion_close(SetExpanded(W, t, "false"), i, p),
                   Call("onClose", i, p, FALSE))
          ELSE LET W1 == IF ~o.allowMultiple /\ lab # NoId
                         THEN CloseOthers(W, i, getElementById(W, lab), 1)
                         ELSE W
               IN Log(Accordion_open(SetExpanded(W1, t, "true"), i, p),
                      Call("onOpen", i, p, FALSE))

\* _focusPreviousTab / _focusNextTab / _focusFirstTab / _focusLastTab
IndexOfActive(W, n) ==
  IF W.activeEl[2] = "t" /\ W.activeEl[1] = n THEN W.activeEl[3] - 1 ELSE -1

FocusIndex(W, n, index) ==
  IF index >= 0 /\ index < NPanels THEN MoveFocus(W, Trigger(n, index + 1)) ELSE W

_focusPreviousTab(W, i) ==
  LET n == W.inst[i].node
      cur == IndexOfActive(W, n)
  IN IF W.activeEl[2] = "t"
     THEN FocusIndex(W, n, IF cur = 0 THEN NPanels - 1 ELSE cur - 1)
     ELSE W

_focusNextTab(W, i) ==
  LET n == W.inst[i].node
      cur == IndexOfActive(W, n)
  IN IF W.activeEl[2] = "t"
     THEN FocusIndex(W, n, IF cur = NPanels - 1 THEN 0 ELSE cur + 1)
     ELSE W

_focusFirstTab(W, i) == FocusIndex(W, W.inst[i].node, 0)

_focusLastTab(W, i) == FocusIndex(W, W.inst[i].node, NPanels - 1)

\* a key handler that also activates the trigger it moved focus to
_handleKeydown_Activates(W, i, key) ==
  IF ~W.inst[i].focus \/ key \notin {"ArrowUp", "ArrowDown", "Home", "End"} THEN W
  ELSE LET W1 == CASE key = "ArrowUp" -> _focusPreviousTab([W EXCEPT !.prevented = TRUE], i)
                   [] key = "ArrowDown" -> _focusNextTab([W EXCEPT !.prevented = TRUE], i)
                   [] key = "Home" -> _focusFirstTab([W EXCEPT !.prevented = TRUE], i)
                   [] OTHER -> _focusLastTab([W EXCEPT !.prevented = TRUE], i)
       IN IF W1.activeEl[2] = "t" THEN _handleButtonClick(W1, i, W1.activeEl) ELSE W1

\* _handleKeydown with this = instance i (the bound handler)
_handleKeydown(W, i, key) ==
  IF ~W.inst[i].focus THEN W
  ELSE CASE key = "ArrowUp" -> _focusPreviousTab([W EXCEPT !.prevented = TRUE], i)
         [] key = "ArrowDown" -> _focusNextTab([W EXCEPT !.prevented = TRUE], i)
         [] key = "Home" -> _focusFirstTab([W EXCEPT !.prevented = TRUE], i)
         [] key = "End" -> _focusLastTab([W EXCEPT !.prevented = TRUE], i)
         [] OTHER -> W

\* One registered keydown listener runs.  init registers this._handleKeydown, the
\* unbound prototype method: the browser calls it with this = document, where
\* this.focus is undefined, so it returns at once.  destroy registers the bound
\* instance.handleKeydown.
RunKeydownListener(W, l, key) ==
  IF l = ProtoKeydown THEN W ELSE _handleKeydown(W, l, key)

RECURSIVE DispatchKeydown(_, _, _)
DispatchKeydown(W, j, key) ==
  IF j > Len(W.keyL) THEN W
  ELSE DispatchKeydown(RunKeydownListener(W, W.keyL[j], key), j + 1, key)

\* the onReachBreakpoint condition of _handleResize, with && binding tighter than ||
CrossedBreakpoint(o, w) ==
  \/ (o.mq.kind # "none" /\ o.hrb = "above" /\ w <= o.mq.th)
  \/ (o.hrb = "below" /\ w > o.mq.th)

\* a resize handler that takes the init / destroy decision before the crossing check
_handleResize_CallbackLast(W0, i, tok) ==
  LET W == Log(W0, Call("_handleResize", i, NoEl, FALSE))
      o == W.inst[i]
      mq == o.mq
      W1 == IF ~o.active /\ (mq.kind = "none" \/ Matches(mq, W.width))
            THEN Accordion_init(W, i, tok)
            ELSE IF o.active /\ mq.kind # "none" /\ ~Matches(mq, W.width)
                 THEN Accordion_destroy(W, o.node)
                 ELSE W
  IN IF CrossedBreakpoint(o, W.width)
     THEN Log([W1 EXCEPT !.inst[i].hrb = IF o.hrb = "above" THEN "below" ELSE "above"],
              Call("onReachBreakpoint", i, NoEl, Matches(mq, W.width)))
     ELSE W1

_handleResize(W0, i, tok) ==
  LET W == Log(W0, Call("_handleResize", i, NoEl, FALSE))
      o == W.inst[i]
      mq == o.mq
      W1 == IF CrossedBreakpoint(o, W.width)
            THEN Log([W EXCEPT !.inst[i].hrb = IF o.hrb = "above" THEN "below" ELSE "above"],
                     Call("onReachBreakpoint", i, NoEl, Matches(mq, W.width)))
            ELSE W
  IN IF ~o.active /\ (mq.kind = "none" \/ Matches(mq, W.width))
     THEN Accordion_init(W1, i, tok)
     ELSE IF o.active /\ mq.kind # "none" /\ ~Matches(mq, W.width)
          THEN Accordion_destroy(W1, o.node)
          ELSE W1

FreeInst(W) == {i \in Insts : W.inst[i].node = 0}

\* a constructor without the isNewInstance() early return: the body runs again on
\* the instance the registry returned
Accordion_constructor_NoGuard(W, n, opt, tok) ==
  LET i == IF W.registry[n] # 0 THEN W.registry[n]
           ELSE CHOOSE j \in FreeInst(W) : \A l \in FreeInst(W) : j <= l
      base == IF W.registry[n] # 0 THEN W.inst[i]
              ELSE [NoInst EXCEPT !.node = n,
                                  !.allowMultiple = opt.allowMultiple,
                                  !.forceExpand = opt.forceExpand,
                                  !.closedDefault = opt.closedDefault,
                                  !.hasAnimation = opt.hasAnimation,
                                  !.mq = opt.mq]
      W1 == [AbstractDomElement_register(W, n, i) EXCEPT
                      !.inst[i] = [base EXCEPT !.active = FALSE, !.activePanel = NoEl,
                                               !.focus = FALSE],
                      !.resizeL = Append(@, i)]
  IN _handleResize(W1, i, tok)

Accordion_constructor(W, n, opt, tok) ==
  IF ~isNewInstance(W, n) THEN W
  ELSE LET i == CHOOSE j \in FreeInst(W) : \A l \in FreeInst(W) : j <= l
           W1 == [AbstractDomElement_register(W, n, i) EXCEPT
                           !.inst[i] = [NoInst EXCEPT !.node = n,
                                                      !.allowMultiple = opt.allowMultiple,
                                                      !.forceExpand = opt.forceExpand,
                                                      !.closedDefault = opt.closedDefault,
                                                      !.hasAnimation = opt.hasAnimation,
                                                      !.mq = opt.mq],
                           !.resizeL = Append(@, i)]
       IN _handleResize(W1, i, tok)

RECURSIVE DispatchResize(_, _, _)
DispatchResize(W, j, toks) ==
  IF j > Len(W.resizeL) THEN W
  ELSE DispatchResize(_handleResize(W, W.resizeL[j], toks[W.resizeL[j]]), j + 1, toks)

RECURSIVE DispatchClick(_, _, _, _)
DispatchClick(W, ls, j, t) ==
  IF j > Len(ls) THEN W
  ELSE DispatchClick(_handleButtonClick(W, ls[j], t), ls, j + 1, t)

\* ------------------------------------------------------------- Toggle
\* tog: exists (an instance is registered for the trigger node), the settings, the
\* target resolved by the constructor, initialized, and the DOM the class touches:
\* the trigger's aria-controls / aria-expanded, the target's id / aria-hidden, and
\* the click listeners on the trigger, the blur listener (handleBlur), the number of
\* anonymous window keydown listeners _closeOnEscPress added, the number of
\* pending handleBlur timeouts, and whether body-scroll-lock holds a lock for the
\* target (locked).
ToggleMarkup ==
  [exists : {FALSE}, hasTarget : {FALSE}, onClick : {FALSE}, isOpened : {FALSE},
   mq : {NoMq}, initialized : {FALSE},
   controls : {"none", "authored"}, expanded : {"none"},
   targetId : {"none"}, hidden : {"none", "true", "false"},
   handleClickL : {FALSE}, onClickRawL : {FALSE}, onClickBoundL : {0},
   closeOnBlur : {FALSE}, closeOnEscPress : {FALSE},
   blurL : {FALSE}, escL : {0}, timers : {0},
   bodyScrollLock : {FALSE}, locked : {FALSE}]

TCur == [t |-> tog, calls |-> <<>>, threw |-> FALSE, ret |-> 0, prevented |-> FALSE]
TLog(T, f) == [T EXCEPT !.calls = Append(@, Call(f, 0, NoEl, FALSE))]
\* a TypeError from dereferencing this.target when the target did not resolve
TThrow(T) == [T EXCEPT !.threw = TRUE]

\* this.disableBodyScroll() without bodyScrollLockMediaQuery: the library locks
\* the document for the target
Toggle_disableBodyScroll(T) == [T EXCEPT !.t.locked = TRUE]

\* enableBodyScroll(this.target) of the library: the target's lock is released
enableBodyScroll(T) == [T EXCEPT !.t.locked = FALSE]

Toggle_open(T) ==
  IF ~T.t.hasTarget THEN TThrow(T)
  ELSE LET T1 == [T EXCEPT !.t.hidden = "false", !.t.expanded = "true"]
       IN IF T.t.bodyScrollLock THEN Toggle_disableBodyScroll(T1) ELSE T1

\* close that forgets the trigger's aria-expanded
Toggle_close_HiddenOnly(T) ==
  IF ~T.t.hasTarget THEN TThrow(T)
  ELSE LET T1 == [T EXCEPT !.t.hidden = "true"]
       IN IF T.t.bodyScrollLock THEN enableBodyScroll(T1) ELSE T1

Toggle_close(T) ==
  IF ~T.t.hasTarget THEN TThrow(T)
  ELSE LET T1 == [T EXCEPT !.t.hidden = "true", !.t.expanded = "false"]
       IN IF T.t.bodyScrollLock THEN enableBodyScroll(T1) ELSE T1

Toggle_reset(T) ==
  IF ~T.t.hasTarget THEN TThrow(T)
  ELSE [T EXCEPT !.t.hidden = "none", !.t.expanded = "none"]

Toggle_init(T0) ==
  LET T == TLog([T0 EXCEPT !.t.initialized = TRUE], "init")
  IN IF ~T.t.hasTarget
     THEN [T EXCEPT !.t.onClickRawL = @ \/ T.t.onClick, !.ret = 0]
     ELSE LET T1 == [T EXCEPT !.t.handleClickL = TRUE,
                             !.t.onClickBoundL = IF T.t.onClick THEN @ + 1 ELSE @,
                             !.t.controls = IF @ = "none" THEN "generated" ELSE @,
                             !.t.targetId = IF T.t.controls = "none" THEN "generated" ELSE @,
                             !.t.blurL = @ \/ T.t.closeOnBlur,
                             !.t.escL = IF T.t.closeOnEscPress THEN @ + 1 ELSE @,
                             !.t.hidden = IF @ = "none"
                                          THEN (IF T.t.isOpened THEN "false" ELSE "true")
                                          ELSE @,
                             !.ret = 1]
          IN IF T.t.isOpened THEN Toggle_open(T1) ELSE T1

\* destroy that leaves the initialized flag set
Toggle_destroy_KeepInitialized(T0) ==
  LET T == Toggle_reset(TLog(T0, "destroy"))
  IN IF T.threw THEN T
     ELSE IF T.t.onClick THEN [T EXCEPT !.t.onClickRawL = FALSE]
          ELSE [T EXCEPT !.t.handleClickL = FALSE, !.t.blurL = FALSE]

Toggle_destroy(T0) ==
  LET T == Toggle_reset(TLog([T0 EXCEPT !.t.initialized = FALSE], "destroy"))
  IN IF T.threw THEN T
     ELSE IF T.t.onClick THEN [T EXCEPT !.t.onClickRawL = FALSE]
          ELSE [T EXCEPT !.t.handleClickL = FALSE, !.t.blurL = FALSE]

Toggle_handleClick(T) ==
  IF T.t.hidden # "none"
  THEN (IF T.t.hidden # "true" THEN Toggle_close(T) ELSE Toggle_open(T))
  ELSE [T EXCEPT !.t.hidden = IF T.t.isOpened THEN "true" ELSE "false"]

Toggle_onResize(T0, w) ==
  LET T == TLog(T0, "onResize")
      mq == T.t.mq
      T1 == IF mq.kind = "none" /\ ~T.t.initialized THEN Toggle_init(T) ELSE T
  IN IF T1.threw THEN T1
     ELSE IF mq.kind # "none" /\ T1.t.initialized /\ ~Matches(mq, w) THEN Toggle_destroy(T1)
     ELSE IF mq.kind # "none" /\ ~T1.t.initialized /\ Matches(mq, w) THEN Toggle_init(T1)
     ELSE IF mq.kind # "none" /\ ~T1.t.initialized /\ ~Matches(mq, w) /\ ~T1.t.hasTarget
          THEN TThrow(T1)
     ELSE T1

Toggle_constructor(T, opt, w) ==
  IF T.t.exists THEN T
  ELSE Toggle_onResize([T EXCEPT !.t.exists = TRUE,
                                 !.t.hasTarget = opt.hasTarget,
                                 !.t.onClick = opt.onClick,
                                 !.t.isOpened = opt.isOpened,
                                 !.t.mq = opt.mq,
                                 !.t.closeOnBlur = opt.closeOnBlur,
                                 !.t.closeOnEscPress = opt.closeOnEscPress,
                                 !.t.bodyScrollLock = opt.bodyScrollLock,
                                 !.t.initialized = FALSE], w)

\* a click event on the trigger: the listeners run in registration order
\* (handleClick first; the onClick callbacks do not touch the attributes)
Toggle_dispatchClick(T) ==
  LET T1 == IF T.t.handleClickL THEN Toggle_handleClick(T) ELSE T
      n == T.t.onClickBoundL + (IF T.t.onClickRawL THEN 1 ELSE 0)
  IN [T1 EXCEPT !.calls = @ \o [j \in 1..n |-> Call("onClick", 0, NoEl, FALSE)]]

\* a blur handler that closes at once instead of scheduling the close
Toggle_handleBlur_Synchronous(T) ==
  IF ~T.t.hasTarget THEN TThrow(T)
  ELSE [T EXCEPT !.t.hidden = "true", !.t.expanded = "false"]

\* handleBlur: schedules the close 200 ms later; the timeout is never cancelled
Toggle_handleBlur(T) == [T EXCEPT !.t.timers = @ + 1]

\* the timeout callback of handleBlur
Toggle_blurTimeout(T0) ==
  LET T == [T0 EXCEPT !.t.timers = @ - 1]
  IN IF ~T.t.hasTarget THEN TThrow(T)
     ELSE [T EXCEPT !.t.hidden = "true", !.t.expanded = "false"]

\* a blur event on the trigger
Toggle_dispatchBlur(T) == IF T.t.blurL THEN Toggle_handleBlur(T) ELSE T

\* a keydown listener that skips the aria-hidden test
Toggle_escListener_NoHiddenTest(T, prevented) ==
  IF prevented THEN T ELSE Toggle_dispatchClick(T)

\* one window keydown listener added by _closeOnEscPress, for an Escape key:
\* el.click() unless the event is defaultPrevented or the element aria-controls
\* names has aria-hidden='true'
Toggle_escListener(T, prevented) ==
  IF prevented \/ T.t.hidden = "true" THEN T ELSE Toggle_dispatchClick(T)

RECURSIVE Toggle_dispatchEscape(_, _, _)
Toggle_dispatchEscape(T, j, prevented) ==
  IF j > T.t.escL THEN T
  ELSE Toggle_dispatchEscape(Toggle_escListener(T, prevented), j + 1, prevented)

\* ------------------------------------------------------------- actions
PlainOptions ==
  [allowMultiple : BOOLEAN, forceExpand : BOOLEAN, closedDefault : BOOLEAN, mq : {NoMq},
   hasAnimation : {FALSE}]
MqOptions ==
  [allowMultiple : BOOLEAN, forceExpand : BOOLEAN, closedDefault : BOOLEAN,
   mq : [kind : {"min", "max"}, th : Thresholds], hasAnimation : {FALSE}]

Construct(n, opt, tok) ==
  /\ (isNewInstance(Cur, n) => FreeInst(Cur) # {})
  /\ LET W == Accordion_constructor(Cur, n, opt, tok)
     IN /\ Commit(W)
        /\ ev' = [NoEv EXCEPT !.op = "construct", !.el = <<n, "x", 0>>,
                              !.calls = W.calls, !.ret = W.registry[n],
                              !.arg = IF isNewInstance(Cur, n) THEN 1 ELSE 0]

Destroy(n) ==
  LET W == Accordion_destroy(Cur, n)
  IN /\ Commit(W)
     /\ ev' = [NoEv EXCEPT !.op = "destroy", !.el = <<n, "x", 0>>, !.calls = W.calls]

Click(n, k) ==
  /\ trigL[n] # <<>>
  /\ LET W == DispatchClick(Cur, trigL[n], 1, Trigger(n, k))
     IN /\ Commit(W)
        /\ ev' = [NoEv EXCEPT !.op = "click", !.el = Trigger(n, k), !.calls = W.calls]

\* the user moves keyboard focus to a trigger, or away from every trigger
UserFocus(el) ==
  /\ el # activeEl
  /\ LET W == MoveFocus(Cur, el)
     IN /\ Commit(W)
        /\ ev' = [NoEv EXCEPT !.op = "focus", !.el = el]

KeyDown(key) ==
  LET W == DispatchKeydown(Cur, 1, key)
  IN /\ Commit(W)
     /\ ev' = [NoEv EXCEPT !.op = key, !.el = activeEl, !.prevented = W.prevented,
                           !.calls = W.calls]

\* one throttled resize notification: every subscribed handler runs, in order
Resize(w, toks) ==
  /\ resizeL # <<>>
  /\ LET W == DispatchResize([Cur EXCEPT !.width = w], 1, toks)
     IN /\ Commit(W)
        /\ ev' = [NoEv EXCEPT !.op = "resize", !.arg = w, !.calls = W.calls,
                              !.flips = {i \in Insts : /\ inst[i].node # 0
                                                       /\ inst[i].mq.kind # "none"
                                                       /\ Matches(inst[i].mq, w)
                                                            # Matches(inst[i].mq, width)}]

\* the document as loaded: markup without ids or ARIA attributes, no instance yet
\* the public methods open(panel) and close(panel) called on the instance of node n,
\* open() called without a panel, and the Animation Port finishing a transition
OpenPanel(n, k) ==
  /\ registry[n] # 0
  /\ LET W == Accordion_open(Cur, registry[n], Panel(n, k))
     IN /\ Commit(W)
        /\ ev' = [NoEv EXCEPT !.op = "acc_open", !.el = Panel(n, k), !.calls = W.calls]

OpenNothing(n) ==
  /\ registry[n] # 0
  /\ LET W == Accordion_open(Cur, registry[n], NoEl)
     IN /\ Commit(W)
        /\ ev' = [NoEv EXCEPT !.op = "acc_open", !.el = NoEl, !.calls = W.calls]

ClosePanel(n, k) ==
  /\ registry[n] # 0
  /\ LET W == Accordion_close(Cur, registry[n], Panel(n, k))
     IN /\ Commit(W)
        /\ ev' = [NoEv EXCEPT !.op = "acc_close", !.el = Panel(n, k), !.calls = W.calls]

SlideDownDone(i, p) ==
  /\ p \in inst[i].downs
  /\ LET W == slideDownComplete(Cur, i, p)
     IN /\ Commit(W)
        /\ ev' = [NoEv EXCEPT !.op = "slideDown_done", !.el = p, !.calls = W.calls]

SlideUpDone(i, p) ==
  /\ p \in inst[i].ups
  /\ LET W == slideUpComplete(Cur, i, p)
     IN /\ Commit(W)
        /\ ev' = [NoEv EXCEPT !.op = "slideUp_done", !.el = p, !.calls = W.calls]

Loaded ==
  /\ trig = [n \in Nodes |-> [k \in Idx |-> NoTrig]]
  /\ panel = [n \in Nodes |-> [k \in Idx |-> NoPanel]]
  /\ trigL = [n \in Nodes |-> <<>>]
  /\ keyL = <<>>
  /\ activeEl = NoEl
  /\ inst = [i \in Insts |-> NoInst]
  /\ registry = [n \in Nodes |-> 0]
  /\ resizeL = <<>>
  /\ firstInit = [n \in Nodes |-> NoSnap]
  /\ trail = <<>>
  /\ ev = NoEv

\* the toggle markup used where no Toggle is constructed
PlainToggle == CHOOSE t \in ToggleMarkup : t.controls = "none" /\ t.hidden = "none"

ToggleOptions ==
  [hasTarget : BOOLEAN, onClick : BOOLEAN, isOpened : BOOLEAN,
   mq : {NoMq, [kind |-> "min", th |-> 1]},
   closeOnBlur : {FALSE}, closeOnEscPress : {FALSE}, bodyScrollLock : {FALSE}]

\* the operations of the round trip open(); close(); open()
RoundTrip == <<"open", "close", "open">>
Push(s, e) == IF Len(s) < Len(RoundTrip) THEN Append(s, e) ELSE Append(Tail(s), e)

TCommit(T, op, isNew) ==
  /\ T.t.onClickBoundL <= MaxListeners
  /\ T.t.escL <= MaxListeners
  /\ T.t.timers <= MaxTimers
  /\ tog' = T.t
  /\ trail' = Push(trail, [op |-> op, hidden |-> T.t.hidden, expanded |-> T.t.expanded])
  /\ ev' = [NoEv EXCEPT !.op = op, !.calls = T.calls, !.threw = T.threw, !.ret = T.ret,
                        !.prevented = T.prevented,
                        !.arg = IF isNew THEN 1 ELSE 0]

ToggleConstruct(opt) ==
  /\ TCommit(Toggle_constructor(TCur, opt, width), "t_construct", ~tog.exists)
  /\ UNCHANGED accVars

ToggleResize(w) ==
  /\ tog.exists
  /\ TCommit(Toggle_onResize(TCur, w), "t_resize", FALSE)
  /\ width' = w
  /\ UNCHANGED <<trig, panel, trigL, keyL, activeEl, inst, registry, resizeL, firstInit>>

ToggleClick ==
  /\ tog.exists
  /\ TCommit(Toggle_dispatchClick(TCur), "t_click", FALSE)
  /\ UNCHANGED accVars

\* the public methods open(), close() and destroy() called on the instance
ToggleOpen ==
  /\ tog.exists
  /\ TCommit(Toggle_open(TCur), "open", FALSE)
  /\ UNCHANGED accVars

ToggleClose ==
  /\ tog.exists
  /\ TCommit(Toggle_close(TCur), "close", FALSE)
  /\ UNCHANGED accVars

ToggleDestroy ==
  /\ tog.exists
  /\ TCommit(Toggle_destroy(TCur), "t_destroy", FALSE)
  /\ UNCHANGED accVars

\* blur of the trigger, the handleBlur timeout firing, an Escape key press
ToggleBlur ==
  /\ tog.exists
  /\ TCommit(Toggle_dispatchBlur(TCur), "t_blur", FALSE)
  /\ UNCHANGED accVars

ToggleTimeout ==
  /\ tog.timers > 0
  /\ TCommit(Toggle_blurTimeout(TCur), "t_timeout", FALSE)
  /\ UNCHANGED accVars

ToggleEscape(prevented) ==
  /\ tog.exists
  /\ TCommit(Toggle_dispatchEscape([TCur EXCEPT !.prevented = prevented], 1, prevented),
             "t_escape", FALSE)
  /\ UNCHANGED accVars

Init == Loaded /\ width = 0 /\ tog = PlainToggle

vars ==
  <<trig, panel, trigL, keyL, activeEl, inst, registry, resizeL, width, firstInit, tog,
    trail, ev>>

\* One accordion group without a media query: clicks, focus, keys, destroy.
Next ==
  \/ \E opt \in PlainOptions, tok \in Tokens : resizeL = <<>> /\ Construct(1, opt, tok)
  \/ \E k \in Idx : Click(1, k)
  \/ \E k \in Idx : UserFocus(Trigger(1, k))
  \/ UserFocus(NoEl)
  \/ \E key \in Keys : KeyDown(key)
  \/ Destroy(1)
  \/ \E tok \in Tokens : Resize(width, [i \in Insts |-> tok])

Spec == Init /\ [][Next]_vars

\* One accordion group with a numeric media query: the viewport is resized.
InitResize == Loaded /\ width \in Widths /\ tog = PlainToggle

NextResize ==
  \/ \E opt \in MqOptions, tok \in Tokens : resizeL = <<>> /\ Construct(1, opt, tok)
  \/ \E w \in Widths, tok \in Tokens : Resize(w, [i \in Insts |-> tok])
  \/ \E k \in Idx : Click(1, k)

SpecResize == InitResize /\ [][NextResize]_vars

\* Two accordion groups in one document sharing prefixId; randomId may repeat.
IdOptions ==
  [allowMultiple : {FALSE}, forceExpand : {TRUE}, closedDefault : {FALSE}, mq : {NoMq},
   hasAnimation : {FALSE}]

NextIds ==
  \/ \E n \in Nodes, opt \in IdOptions, tok \in Tokens :
        /\ isNewInstance(Cur, n)
        /\ \A m \in 1..(n - 1) : firstInit[m] # NoSnap
        /\ Construct(n, opt, tok)
  \/ \E n \in Nodes : Destroy(n)
  \/ \E tok \in Tokens : Resize(width, [i \in Insts |-> tok])

SpecIds == Init /\ [][NextIds]_vars

\* Two accordion groups in one document: focus moves, key presses, destroy and the
\* re-init a resize notification brings.
NextKeys ==
  \/ \E n \in Nodes, opt \in IdOptions :
        /\ isNewInstance(Cur, n)
        /\ \A m \in 1..(n - 1) : firstInit[m] # NoSnap
        /\ Construct(n, opt, 1)
  \/ \E n \in Nodes, k \in Idx : UserFocus(Trigger(n, k))
  \/ UserFocus(NoEl)
  \/ \E key \in Keys : KeyDown(key)
  \/ \E n \in Nodes : Destroy(n)
  \/ Resize(width, [i \in Insts |-> 1])

SpecKeys == Init /\ [][NextKeys]_vars

\* One Toggle: construction, clicks, resizes and the public methods.
InitToggle == Loaded /\ width \in Widths /\ tog \in ToggleMarkup

NextToggle ==
  \/ \E opt \in ToggleOptions : ~tog.exists /\ ToggleConstruct(opt)
  \/ \E w \in Widths : ToggleResize(w)
  \/ ToggleClick
  \/ ToggleOpen
  \/ ToggleClose
  \/ ToggleDestroy

SpecToggle == InitToggle /\ [][NextToggle]_vars

\* One Toggle with a resolved target and every combination of onClick, closeOnBlur
\* and closeOnEscPress: clicks, blurs, timeouts, Escape, resizes and destroy.
ListenerOptions ==
  [hasTarget : {TRUE}, onClick : BOOLEAN, isOpened : {FALSE},
   mq : {NoMq, [kind |-> "min", th |-> 1]},
   closeOnBlur : BOOLEAN, closeOnEscPress : BOOLEAN, bodyScrollLock : {FALSE}]

NextListeners ==
  \/ \E opt \in ListenerOptions : ~tog.exists /\ ToggleConstruct(opt)
  \/ \E w \in Widths : ToggleResize(w)
  \/ ToggleClick
  \/ ToggleBlur
  \/ ToggleTimeout
  \/ \E prevented \in BOOLEAN : ToggleEscape(prevented)
  \/ ToggleDestroy

SpecListeners == InitToggle /\ [][NextListeners]_vars

\* One Toggle with bodyScrollLock and no bodyScrollLockMediaQuery, on markup whose
\* target is not authored open: clicks, blurs, timeouts, Escape and resizes.
ScrollOptions ==
  [hasTarget : {TRUE}, onClick : {FALSE}, isOpened : BOOLEAN,
   mq : {NoMq, [kind |-> "min", th |-> 1]},
   closeOnBlur : BOOLEAN, closeOnEscPress : BOOLEAN, bodyScrollLock : {TRUE}]

InitScroll == InitToggle /\ tog.hidden # "false"

NextScroll ==
  \/ \E opt \in ScrollOptions : ~tog.exists /\ ToggleConstruct(opt)
  \/ \E w \in Widths : ToggleResize(w)
  \/ ToggleClick
  \/ ToggleBlur
  \/ ToggleTimeout
  \/ \E prevented \in BOOLEAN : ToggleEscape(prevented)

SpecScroll == InitScroll /\ [][NextScroll]_vars

\* One Toggle with closeOnEscPress and a resolved target: init / destroy / init
\* cycles (public destroy, breakpoint), clicks and Escape key presses.
EscOptions ==
  [hasTarget : {TRUE}, onClick : BOOLEAN, isOpened : {FALSE},
   mq : {NoMq, [kind |-> "min", th |-> 1]},
   closeOnBlur : {FALSE}, closeOnEscPress : {TRUE}, bodyScrollLock : {FALSE}]

NextEsc ==
  \/ \E opt \in EscOptions : ~tog.exists /\ ToggleConstruct(opt)
  \/ \E w \in Widths : ToggleResize(w)
  \/ ToggleClick
  \/ \E prevented \in BOOLEAN : ToggleEscape(prevented)
  \/ ToggleDestroy

SpecEsc == InitToggle /\ [][NextEsc]_vars

\* One Toggle with closeOnBlur and a resolved target: clicks, blurs of the trigger,
\* the delayed close firing, resizes and destroy.
BlurOptions ==
  [hasTarget : {TRUE}, onClick : BOOLEAN, isOpened : BOOLEAN,
   mq : {NoMq, [kind |-> "min", th |-> 1]},
   closeOnBlur : {TRUE}, closeOnEscPress : {FALSE}, bodyScrollLock : {FALSE}]

NextBlur ==
  \/ \E opt \in BlurOptions : ~tog.exists /\ ToggleConstruct(opt)
  \/ \E w \in Widths : ToggleResize(w)
  \/ ToggleClick
  \/ ToggleBlur
  \/ ToggleTimeout
  \/ ToggleDestroy

SpecBlur == InitToggle /\ [][NextBlur]_vars

\* One accordion group, with and without hasAnimation: open(panel) and close(panel)
\* called directly, the transitions completing, focus moved back to the first trigger.
AnimOptions ==
  [allowMultiple : {FALSE}, forceExpand : {FALSE}, closedDefault : BOOLEAN, mq : {NoMq},
   hasAnimation : BOOLEAN]

NextAnim ==
  \/ \E opt \in AnimOptions : resizeL = <<>> /\ Construct(1, opt, 1)
  \/ \E k \in Idx : OpenPanel(1, k)
  \/ OpenNothing(1)
  \/ \E k \in Idx : ClosePanel(1, k)
  \/ \E k \in Idx : SlideDownDone(1, Panel(1, k))
  \/ \E k \in Idx : SlideUpDone(1, Panel(1, k))
  \/ UserFocus(Trigger(1, 1))

SpecAnim == Init /\ [][NextAnim]_vars

\* Repeated construction on a node, for both widget families.
CtorOptions ==
  [allowMultiple : BOOLEAN, forceExpand : {TRUE}, closedDefault : BOOLEAN,
   mq : {NoMq, [kind |-> "min", th |-> 1]}, hasAnimation : {FALSE}]

InitCtor == Loaded /\ width \in Widths /\ tog = PlainToggle

NextCtor ==
  \/ \E opt \in CtorOptions : Construct(1, opt, 1)
  \/ \E opt \in ToggleOptions : ToggleConstruct(opt)
  \/ \E k \in Idx : Click(1, k) /\ ~tog.exists

SpecCtor == InitCtor /\ [][NextCtor]_vars

\* ------------------------------------------------------------- properties
ActiveInsts == {i \in Insts : inst[i].node # 0 /\ inst[i].active}
Visible(n, k) == panel[n][k].display # "none"
VisibleCount(n) == Cardinality({k \in Idx : Visible(n, k)})
Visibility(n) == [k \in Idx |-> Visible(n, k)]
AriaExpanded(n) == [k \in Idx |-> trig[n][k].expanded]
CallsOf(f, i) == {j \in 1..Len(ev.calls) : ev.calls[j].f = f /\ ev.calls[j].i = i}

\* C1: with allowMultiple=false at most one panel of an active group is visible,
\* in every state from init on.
C1_AtMostOneVisible ==
  \A i \in ActiveInsts : ~inst[i].allowMultiple => VisibleCount(inst[i].node) <= 1

\* C2: with forceExpand, no allowMultiple and no closedDefault, every click leaves
\* exactly one panel visible, and a click on the trigger of a visible panel changes
\* no aria-expanded and no panel visibility.
C2_ForcedSingleNoop ==
  [][\A i \in ActiveInsts :
       (/\ ev'.op = "click"
        /\ ev'.el[1] = inst[i].node
        /\ inst[i].forceExpand /\ ~inst[i].allowMultiple /\ ~inst[i].closedDefault)
       => /\ VisibleCount(inst[i].node)' = 1
          /\ Visible(ev'.el[1], ev'.el[3])
               => /\ Visibility(inst[i].node)' = Visibility(inst[i].node)
                  /\ AriaExpanded(inst[i].node)' = AriaExpanded(inst[i].node)]_vars

\* C3: no two elements of the document carry the same id.
AllElements == {Trigger(n, k) : n \in Nodes, k \in Idx} \cup {Panel(n, k) : n \in Nodes, k \in Idx}
IdOf(e) == IF e[2] = "t" THEN trig[e[1]][e[3]].id ELSE panel[e[1]][e[3]].id
C3_UniqueIds ==
  \A e \in AllElements, f \in AllElements : e # f /\ IdOf(e) # NoId => IdOf(e) # IdOf(f)

\* two groups are initialized at once and randomId returned the same token for both
C3_Witness ==
  /\ \A n \in Nodes : \E i \in ActiveInsts : inst[i].node = n
  /\ \A n \in Nodes : IdOf(Trigger(n, 1)) # NoId /\ IdOf(Trigger(n, 1))[1] = IdOf(Trigger(1, 1))[1]

\* C4: constructing an Accordion or a Toggle on a node that already has an instance
\* returns that instance, runs neither the resize handler nor init, and leaves the
\* instance and its resolved options as they were.
C4_IdempotentConstruction ==
  [][/\ (ev'.op = "construct" /\ ev'.arg = 0)
        => /\ ev'.ret = registry[ev'.el[1]]
           /\ ev'.calls = <<>>
           /\ inst' = inst /\ registry' = registry /\ resizeL' = resizeL
     /\ (ev'.op = "t_construct" /\ ev'.arg = 0)
        => /\ ev'.calls = <<>>
           /\ tog' = tog]_vars

\* a second construction on an accordion node while a Toggle instance exists too
C4_Witness == ev.op = "construct" /\ ev.arg = 0 /\ registry[1] # 0 /\ tog.exists

\* C5: with focus on trigger k of an active group, ArrowDown / ArrowUp / Home / End
\* move focus to the next / previous / first / last trigger (wrapping) and the key's
\* default action is suppressed.
RovingTarget(key, k) ==
  CASE key = "ArrowDown" -> (k % NPanels) + 1
    [] key = "ArrowUp" -> ((k + NPanels - 2) % NPanels) + 1
    [] key = "Home" -> 1
    [] OTHER -> NPanels
C5_KeyboardRoving ==
  \A i \in ActiveInsts :
    (/\ ev.op \in {"ArrowUp", "ArrowDown", "Home", "End"}
     /\ ev.el[2] = "t" /\ ev.el[1] = inst[i].node)
    => activeEl = Trigger(inst[i].node, RovingTarget(ev.op, ev.el[3])) /\ ev.prevented

\* C6: a resize notification invokes onReachBreakpoint exactly once, with the
\* current matches value, when mediaQuery.matches flipped, and not at all otherwise.
C6_OncePerCrossing ==
  ev.op = "resize" =>
    \A i \in Insts : inst[i].node # 0 /\ inst[i].mq.kind # "none" =>
      /\ Cardinality(CallsOf("onReachBreakpoint", i)) = IF i \in ev.flips THEN 1 ELSE 0
      /\ \A j \in CallsOf("onReachBreakpoint", i) : ev.calls[j].b = Matches(inst[i].mq, width)

\* C7: the group has exactly one document keydown listener while active and none
\* while inactive.
C7_OneKeydownListener ==
  \A i \in Insts :
    (inst[i].node # 0 /\ \A j \in Insts \ {i} : inst[j].node = 0)
    => Len(keyL) = IF inst[i].active THEN 1 ELSE 0

\* C8: the state an init leaves after a destroy (aria-expanded, aria-controls,
\* aria-labelledby, ids up to the random token, panel visibility) equals the state the
\* group's first init produced, whatever was clicked in between.
JustInitialized(i) ==
  /\ inst[i].node # 0
  /\ ev.calls # <<>>
  /\ ev.calls[Len(ev.calls)].i = i
  /\ ev.calls[Len(ev.calls)].f \in {"init", "onInit"}
C8_ReinitEqualsFresh ==
  \A i \in Insts : JustInitialized(i) => Snap(Cur, inst[i].node) = firstInit[inst[i].node]

\* an init that follows a destroy of the same instance
C8_Witness == \E i \in Insts : JustInitialized(i) /\ InSeq(keyL, i)

\* C9: open(); close(); open() leaves aria-hidden / aria-expanded as the first open()
\* left them ('false' / 'true'), and close() after open() leaves 'true' / 'false'.
C9_OpenCloseOpen ==
  /\ (Len(trail) = Len(RoundTrip) /\ [j \in 1..Len(trail) |-> trail[j].op] = RoundTrip
      /\ tog.initialized /\ tog.hasTarget)
     => /\ trail[3].hidden = trail[1].hidden /\ trail[3].expanded = trail[1].expanded
        /\ tog.hidden = "false" /\ tog.expanded = "true"
  /\ (Len(trail) >= 2 /\ trail[Len(trail)].op = "close" /\ trail[Len(trail) - 1].op = "open"
      /\ tog.initialized /\ tog.hasTarget)
     => tog.hidden = "true" /\ tog.expanded = "false"

C9_Witness ==
  /\ Len(trail) = Len(RoundTrip) /\ [j \in 1..Len(trail) |-> trail[j].op] = RoundTrip
  /\ tog.initialized /\ tog.hasTarget /\ ~ev.threw

\* C10: once a resize notification is handled, active equals mediaQuery.matches.
C10_ActiveIffMatches ==
  \A i \in Insts : inst[i].node # 0 /\ inst[i].mq.kind # "none" =>
    inst[i].active = Matches(inst[i].mq, width)

\* C11: for a Toggle with a resolved target, after construction and after every
\* handled resize notification, initialized holds exactly when no mediaQuery is
\* configured or the mediaQuery matches.
C11_InitializedIffMatches ==
  (ev.op \in {"t_construct", "t_resize"} /\ tog.exists /\ tog.hasTarget)
  => (tog.initialized <=> (tog.mq.kind = "none" \/ Matches(tog.mq, width)))

\* a resize that found the query unmatched after an earlier init had generated the ids
C11_Witness ==
  /\ ev.op = "t_resize" /\ tog.hasTarget /\ tog.mq.kind # "none"
  /\ ~Matches(tog.mq, width) /\ tog.controls = "generated"

\* C12: a click on a trigger whose aria-expanded is 'true' collapses it exactly when
\* forceExpand is false, or forceExpand and allowMultiple hold and more than one
\* trigger is expanded; with forceExpand, allowMultiple and no closedDefault some
\* trigger is always expanded with its panel visible.
ExpandedCount(n) == Cardinality({k \in Idx : trig[n][k].expanded = "true"})
MayCollapse(i) ==
  \/ ~inst[i].forceExpand
  \/ inst[i].forceExpand /\ inst[i].allowMultiple /\ ExpandedCount(inst[i].node) > 1
CloseCalls(calls, p) == {j \in 1..Len(calls) : calls[j].f = "onClose" /\ calls[j].el = p}
C13_CloseCallbacks ==
  [][\A i \in ActiveInsts :
       (ev'.op = "click" /\ ev'.el[1] = inst[i].node)
       => \A k \in Idx :
            LET c == Cardinality(CloseCalls(ev'.calls, Panel(inst[i].node, k)))
            IN /\ c > 0 => Visible(inst[i].node, k)
               /\ (Visible(inst[i].node, k) /\ panel'[inst[i].node][k].display = "none")
                    => c = 1]_vars

\* C14: under forceExpand and no allowMultiple, a click on the sole expanded trigger
\* invokes neither onOpen nor onClose, moves no focus and changes no attribute and
\* no activePanel.
C14_SilentNoop ==
  [][\A i \in ActiveInsts :
       (/\ ev'.op = "click"
        /\ ev'.el[1] = inst[i].node
        /\ inst[i].forceExpand /\ ~inst[i].allowMultiple
        /\ trig[ev'.el[1]][ev'.el[3]].expanded = "true"
        /\ ExpandedCount(inst[i].node) = 1)
       => /\ ev'.calls = <<>>
          /\ activeEl' = activeEl
          /\ trig' = trig /\ panel' = panel
          /\ inst'[i].activePanel = inst[i].activePanel]_vars

\* C15: an init of a Toggle without resolved target and without onClick returns
\* false, attaches no listener, writes no attribute and leaves initialized false.
InitRan == \E j \in 1..Len(ev.calls) : ev.calls[j].f = "init"
C15_FailedInitInactive ==
  (tog.exists /\ ~tog.hasTarget /\ ~tog.onClick /\ InitRan /\ ~ev.threw)
  => /\ ev.ret = 0
     /\ ~tog.handleClickL /\ ~tog.onClickRawL /\ tog.onClickBoundL = 0
     /\ tog.controls # "generated" /\ tog.targetId = "none" /\ tog.expanded = "none"
     /\ ~tog.initialized

\* C16: for a Toggle whose target did not resolve, no construction, resize
\* notification or destroy call raises an error.
C16_NeverThrows ==
  (~tog.hasTarget /\ ev.op \in {"t_construct", "t_resize", "t_destroy"}) => ~ev.threw

\* C17: after destroy, the trigger has neither aria-expanded nor a generated
\* aria-controls, the target has neither aria-hidden nor a generated id, and
\* initialized is false.
DestroyRan == \E j \in 1..Len(ev.calls) : ev.calls[j].f = "destroy"
C17_DestroyStripsAria ==
  (tog.exists /\ tog.hasTarget /\ DestroyRan /\ ~InitRan)
  => /\ tog.expanded = "none" /\ tog.controls # "generated"
     /\ tog.hidden = "none" /\ tog.targetId # "generated"
     /\ ~tog.initialized

\* C18: while a Toggle is not initialized (after destroy, until the next init), a
\* click on the trigger, a blur of the trigger or an Escape key press changes no
\* attribute of trigger or target, schedules no close and invokes no onClick.
ToggleAttrs == <<tog.controls, tog.expanded, tog.targetId, tog.hidden>>
OnClickCalls(calls) == {j \in 1..Len(calls) : calls[j].f = "onClick"}
C18_DestroyDetaches ==
  [][(/\ tog.exists /\ tog.hasTarget /\ ~tog.initialized
      /\ ev'.op \in {"t_click", "t_blur", "t_escape"})
     => /\ ToggleAttrs' = ToggleAttrs
        /\ tog'.timers = tog.timers
        /\ OnClickCalls(ev'.calls) = {}]_vars

\* C19: while a constructed group is inactive (after destroy, until the next init),
\* its triggers carry no id, aria-controls or aria-expanded, its panels no id,
\* aria-labelledby or inline style, activePanel is null, and no click and no
\* ArrowUp / ArrowDown / Home / End changes an attribute, moves focus or has its
\* default suppressed.
Destroyed(i) == inst[i].node # 0 /\ ~inst[i].active
C19_DestroyedIsInert ==
  /\ [](\A i \in Insts : Destroyed(i) =>
          /\ \A k \in Idx : trig[inst[i].node][k] = NoTrig /\ panel[inst[i].node][k] = NoPanel
          /\ inst[i].activePanel = NoEl)
  /\ [][(/\ \E i \in Insts : Destroyed(i)
         /\ \A i \in Insts : inst[i].node # 0 => Destroyed(i)
         /\ ev'.op \in {"click", "ArrowUp", "ArrowDown", "Home", "End"})
        => /\ trig' = trig /\ panel' = panel
           /\ activeEl' = activeEl
           /\ ~ev'.prevented]_vars

\* C20: at most one instance per node is subscribed to resize or has listeners on
\* the node's triggers, and every active instance is the one getInstance returns
\* for its node.
Attached(n) == {i \in Insts : inst[i].node = n /\ (InSeq(resizeL, i) \/ InSeq(trigL[n], i))}
C20_SingletonPerNode ==
  /\ \A n \in Nodes : Cardinality(Attached(n)) <= 1
  /\ \A i \in ActiveInsts : AbstractDomElement_getInstance(Cur, inst[i].node) = i

\* C21: Accordion.destroy on a node that has no registered instance changes no
\* attribute, no listener, no instance and invokes nothing.
C21_DestroyIdempotent ==
  [][(ev'.op = "destroy" /\ AbstractDomElement_getInstance(Cur, ev'.el[1]) = 0)
     => /\ UNCHANGED accVars
        /\ ev'.calls = <<>> /\ ~ev'.threw]_vars

\* a second destroy of a group that was destroyed before
C21_Witness ==
  /\ ev.op = "destroy" /\ ev.calls = <<>>
  /\ \E i \in Insts : inst[i].node = ev.el[1] /\ InSeq(keyL, i)

\* C22: within one resize notification, an instance's onReachBreakpoint invocation
\* comes before its init or destroy.
LifecycleCalls(i) ==
  {j \in 1..Len(ev.calls) : ev.calls[j].i = i /\ ev.calls[j].f \in {"init", "destroy"}}
C22_CallbackBeforeLifecycle ==
  ev.op = "resize" =>
    \A i \in Insts : \A j \in CallsOf("onReachBreakpoint", i), k \in LifecycleCalls(i) : j < k

\* a notification in which the callback and a destroy both ran
C22_Witness ==
  /\ ev.op = "resize"
  /\ \E i \in Insts : CallsOf("onReachBreakpoint", i) # {} /\ CallsOf("destroy", i) # {}

\* C23: with every constructed group active, an ArrowUp / ArrowDown / Home / End
\* pressed while focus is on a trigger of a group leaves focus on a trigger of that
\* group, and pressed while focus is on no trigger moves no focus and keeps its
\* default action.
AllActive ==
  /\ \A i \in Insts : inst[i].node # 0 => inst[i].active
  /\ activeEl[2] = "t" => \E i \in ActiveInsts : inst[i].node = activeEl[1]
C23_KeysStayInGroup ==
  [][(AllActive /\ ev'.op \in {"ArrowUp", "ArrowDown", "Home", "End"})
     => IF activeEl[2] = "t"
        THEN activeEl'[2] = "t" /\ activeEl'[1] = activeEl[1]
        ELSE activeEl' = activeEl /\ ~ev'.prevented]_vars

\* C24: ArrowUp / ArrowDown / Home / End leave every aria-expanded, every panel's
\* visibility and every activePanel unchanged and invoke neither onOpen nor onClose.
C24_KeysOnlyMoveFocus ==
  [][ev'.op \in {"ArrowUp", "ArrowDown", "Home", "End"}
     => /\ trig' = trig /\ panel' = panel
        /\ \A i \in Insts : inst'[i].activePanel = inst[i].activePanel
        /\ ev'.calls = <<>>]_vars

\* a key press that moved focus between the triggers of an active group
C24_Witness ==
  /\ ev.op \in {"ArrowUp", "ArrowDown", "Home", "End"}
  /\ ev.prevented /\ activeEl # ev.el /\ activeEl[2] = "t"
  /\ \E i \in ActiveInsts : inst[i].node = activeEl[1] /\ inst[i].activePanel # NoEl

\* C25: with bodyScrollLock and no bodyScrollLockMediaQuery the scroll lock is
\* held exactly while the target has aria-hidden='false'; it is never still held
\* once the disclosure is closed or destroyed.
C25_LockedIffOpen ==
  (tog.exists /\ tog.bodyScrollLock) => (tog.locked <=> tog.hidden = "false")

\* C26: with closeOnEscPress, after any number of init/destroy/init cycles, an
\* Escape press no handler consumed, while the widget is initialized and the target
\* is open, leaves aria-hidden='true' and aria-expanded='false'; an Escape press
\* while the target is hidden, or with defaultPrevented set, changes nothing.
C26_EscapeCloses ==
  [][(ev'.op = "t_escape" /\ tog.closeOnEscPress)
     => /\ (~ev'.prevented /\ tog.initialized /\ tog.hidden = "false")
             => (tog'.hidden = "true" /\ tog'.expanded = "false")
        /\ (ev'.prevented \/ tog.hidden = "true")
             => (tog' = tog /\ ev'.calls = <<>>)]_vars

\* an unconsumed Escape closed an open target after a second init had added a
\* second keydown listener
C26_Witness ==
  /\ ev.op = "t_escape" /\ ~ev.prevented
  /\ tog.initialized /\ tog.escL >= 2 /\ tog.hidden = "true"
  /\ Len(trail) >= 2 /\ trail[Len(trail) - 1].hidden = "false"

\* C27: with closeOnBlur a blur of the trigger changes no attribute at once and
\* only schedules the close; a scheduled close is never cancelled, and when the
\* delay fires it sets aria-hidden='true' and aria-expanded='false' whatever
\* happened in between, also after a click reopened the disclosure.
C27_BlurClosesLater ==
  [][/\ (ev'.op = "t_blur" /\ tog.closeOnBlur)
          => /\ tog'.hidden = tog.hidden /\ tog'.expanded = tog.expanded
             /\ tog'.controls = tog.controls /\ tog'.targetId = tog.targetId
             /\ tog.blurL => tog'.timers = tog.timers + 1
     /\ tog'.timers < tog.timers => ev'.op = "t_timeout"
     /\ ev'.op = "t_timeout"
          => tog'.hidden = "true" /\ tog'.expanded = "false" /\ ~ev'.threw]_vars

\* blur, then a click reopened the disclosure, then the delay fired and closed it
C27_Witness ==
  /\ tog.closeOnBlur /\ tog.initialized /\ Len(trail) = 3
  /\ trail[1].op = "t_blur" /\ trail[1].hidden = "true"
  /\ trail[2].op = "t_click" /\ trail[2].hidden = "false"
  /\ trail[3].op = "t_timeout" /\ tog.hidden = "true" /\ tog.expanded = "false"

\* C28: in every state of an active Accordion each trigger's aria-expanded is
\* 'true' exactly when the panel it controls is visible.
C28_AriaMatchesVisible ==
  \A i \in ActiveInsts : \A k \in Idx :
    (trig[inst[i].node][k].expanded = "true") <=> Visible(inst[i].node, k)

\* C29: right after an init with closedDefault = false, trigger 0 has
\* aria-expanded='true' and its panel is visible, every other trigger has
\* aria-expanded='false' and every other panel is hidden.
C29_FirstPanelOnly ==
  \A i \in Insts :
    (JustInitialized(i) /\ ~inst[i].closedDefault)
    => LET n == inst[i].node
       IN /\ trig[n][1].expanded = "true" /\ Visible(n, 1)
          /\ \A k \in Idx \ {1} : trig[n][k].expanded = "false" /\ ~Visible(n, k)

C31_PairsLinked ==
  \A i \in Insts :
    JustInitialized(i)
    => \A k \in Idx : /\ trig[inst[i].node][k].controls = panel[inst[i].node][k].id
                      /\ panel[inst[i].node][k].labelledby = trig[inst[i].node][k].id

\* C32: over the life of an instance, destroy / init cycles included, onInit is
\* invoked exactly once, on the first transition into the active state: never
\* while the group is active, and never for a group that has been initialized before.
C32_OnInitOnce ==
  [][\A i \in Insts :
       (\E j \in 1..Len(ev'.calls) : ev'.calls[j].f = "onInit" /\ ev'.calls[j].i = i)
       => /\ ~inst[i].active
          /\ firstInit[inst'[i].node] = NoSnap
          /\ Cardinality({j \in 1..Len(ev'.calls) :
                            ev'.calls[j].f = "onInit" /\ ev'.calls[j].i = i}) = 1]_vars

\* C33: open(panel) focuses the panel's first focusable descendant, within the call
\* when it does not animate and only in the completion callback of the animation
\* when it does; close(panel) never moves focus; open without a panel does nothing.
Animates(i, p) == inst[i].hasAnimation /\ isClosed(Cur, p)
FocusTarget(p) == IF PanelHasFocusable(p[1], p[3]) THEN Inner(p[1], p[3]) ELSE activeEl
C33_OpenFocus ==
  [][/\ (ev'.op = "acc_open" /\ ev'.el # NoEl)
          => IF Animates(registry[ev'.el[1]], ev'.el)
             THEN activeEl' = activeEl /\ ev'.el \in inst'[registry[ev'.el[1]]].downs
             ELSE activeEl' = FocusTarget(ev'.el)
     /\ (ev'.op = "slideDown_done" /\ panel[ev'.el[1]][ev'.el[3]].display # "none")
          => activeEl' = FocusTarget(ev'.el)
     /\ ev'.op \in {"acc_close", "slideUp_done"} => activeEl' = activeEl
     /\ (ev'.op = "acc_open" /\ ev'.el = NoEl)
          => UNCHANGED <<trig, panel, inst, activeEl>>]_vars

\* an animated open left focus where it was and the completion callback then
\* moved it into the panel
C33_Witness ==
  /\ ev.op = "slideDown_done"
  /\ activeEl = Inner(ev.el[1], ev.el[3])
  /\ \E i \in ActiveInsts : inst[i].hasAnimation /\ inst[i].activePanel = ev.el

\* C34: after a successful Toggle init, whatever aria-hidden the target carried, the
\* target's aria-hidden is 'false' exactly when isOpened is set and 'true'
\* otherwise, and with isOpened the trigger's aria-expanded is 'true'.
C34_InitMatchesIsOpened ==
  (/\ tog.exists /\ ev.calls # <<>> /\ ev.calls[Len(ev.calls)].f = "init"
   /\ ev.ret = 1 /\ ~ev.threw)
  => /\ tog.hidden = (IF tog.isOpened THEN "false" ELSE "true")
     /\ tog.isOpened => tog.expanded = "true"

\* C35: a blur-close delay that fires after the Toggle was destroyed does not write
\* to it: the target still has no aria-hidden and the trigger no aria-expanded.
C35_TimerSparesDestroyed ==
  [][(/\ ev'.op = "t_timeout"
      /\ tog.exists /\ ~tog.initialized
      /\ tog.hidden = "none" /\ tog.expanded = "none")
     => (tog'.hidden = "none" /\ tog'.expanded = "none")]_vars

\* C36: with a resolved target and an onClick callback, one click on the trigger
\* while initialized invokes onClick exactly once and toggles the open state exactly
\* once, however many init / destroy cycles came before.
C36_OneClickOneCallback ==
  [][(/\ ev'.op = "t_click"
      /\ tog.exists /\ tog.initialized /\ tog.hasTarget /\ tog.onClick)
     => /\ Cardinality(OnClickCalls(ev'.calls)) = 1
        /\ tog'.hidden \in {"true", "false"} /\ tog'.hidden # tog.hidden]_vars

====
